---- MODULE Spec2Model ----
(***************************************************************************)
(* Model of the retrieval core of MultiAgent_LangGraph: the two search     *)
(* strategies BM25Search (src/retrieval/search/bm25_search.py) and         *)
(* SemanticSearch (src/retrieval/semantic_search.py), under Spec, and the  *)
(* chunker SchemaClassChunker (src/retrieval/chunk/chunks.py), under       *)
(* SpecChunk.                                                              *)
(*                                                                         *)
(* One behaviour of Spec is the life of one search instance: it is built   *)
(* (Init), then build_index and search are called in any order with any    *)
(* arguments, one call at a time: a call ends (it returns or raises), the  *)
(* caller takes what it got (Return) and makes the next call.              *)
(* A text is modelled as the sequence of its whitespace                    *)
(* separated words.  BM25 scores are fixed-point numbers (unit 10^-7),     *)
(* cosine similarities are kept exactly as the pair (dot product, squared  *)
(* product of the norms).                                                  *)
(***************************************************************************)
EXTENDS Integers, Sequences, FiniteSets

VARIABLES
    kind,             \* which class the instance is: "bm25" or "semantic"
    argsortTies,      \* how this build's np.argsort orders equal keys
    embedding_model,  \* SemanticSearch.embedding_model: TRUE iff not None
    documents,        \* self.documents
    tokenized_docs,   \* BM25Search.tokenized_docs
    bm25,             \* BM25Search.bm25: None or <<the BM25Okapi index>>
    embeddings,       \* SemanticSearch.embeddings
    builds,           \* number of build_index calls made so far
    passed,           \* the list passed to the most recent build_index
    op,               \* the call that just ended: "build_index" or "search";
                      \* "none" once the caller has taken its result
    query,            \* the query of that call, if it was a search
    k,                \* the k of that call, if it was a search
    outcome,          \* how that call ended: "ok" or the error raised
    results,          \* the list that call returned, if it was a search
    embed_log,        \* the texts that call passed to embed_query, in order
    again,            \* TRUE iff that call repeated the search before it
    before,           \* if again, what the search before it returned
    input_text,       \* the text passed to SchemaClassChunker.chunk
    max_chunk_size,   \* SchemaClassChunker.max_chunk_size: None or <<n>>
    stage,            \* "new", "chunked" after chunk(text), "rechunked"
                      \* after the chunks were joined and chunked again
    blocks,           \* the spans of text that CLASS_PATTERN matched, trimmed
    split_log,        \* one entry per call of _split_large_block
    chunks,           \* the list chunk(text) returned
    rechunks,         \* the list chunk returned for the joined chunks
    file_path,        \* the path passed to get_documents_from_file
    loaded,           \* the Documents get_documents_from_file returned
    node,             \* the node of app_graph that runs next, or "END"
    messages,         \* GraphState.messages
    collections,      \* the ids stored in each chroma collection, by path
                      \* and collection name
    retriever,        \* None, or <<the path and collection of the
                      \* VectorRetriever constructed last, and the count it
                      \* read>>
    schema_docs       \* how many Documents ../schema.py gives

searchvars == <<kind, argsortTies, embedding_model, documents, tokenized_docs,
                bm25, embeddings, builds, passed, op, query, k, outcome,
                results, embed_log, again, before>>

chunkvars == <<input_text, max_chunk_size, stage, blocks, split_log, chunks,
               rechunks, file_path, loaded>>

graphvars == <<node, messages>>

storevars == <<collections, retriever, schema_docs>>

vars == <<searchvars, chunkvars, graphvars, storevars>>

----------------------------------------------------------------------------
(* Bounds of the model *)

MaxDocs == 3        \* longest list passed to build_index
MaxK == 3           \* largest k passed to search
MaxBuilds == 2      \* build_index calls in one behaviour
MaxPieces == 5      \* pieces in a text passed to chunk
MaxLlmCalls == 4    \* llm.invoke calls in one run of app_graph
MaxSchemaDocs == 2  \* Documents that ../schema.py gives, and a collection holds

----------------------------------------------------------------------------
(* Inputs *)

\* Python's None, for the optional BM25 index (a present index is <<index>>)
None == << >>

SeqsUpTo(S, n) == UNION {[1..m -> S] : m \in 0..n}

\* the texts documents are drawn from: the empty text and two one-word texts
DocTexts == {<< >>, <<"A">>, <<"X">>}

\* the queries: the empty query, one word, two words that match different
\* documents equally, and a query that repeats one of them.  Both engines sum
\* over the words of the query, so the order of the words plays no part.
Queries == {<< >>, <<"a">>, <<"x">>, <<"a", "x">>, <<"a", "a", "x">>}

KValues == (0 - 1)..MaxK

\* a langchain Document as retrieve.py builds it
MkDocument(text) ==
    [page_content |-> text,
     metadata |-> [source |-> "schema.py",
                   table_name |-> IF text = << >> THEN "Unknown" ELSE text[1]]]

\* what build_index can be passed: Documents for BM25Search, strings for
\* SemanticSearch
DocumentLists == SeqsUpTo({MkDocument(t) : t \in DocTexts}, MaxDocs)

StringLists == SeqsUpTo(DocTexts, MaxDocs)

----------------------------------------------------------------------------
(* Python and numpy helpers *)

\* str.lower on one word
LowerWord(w) == CASE w = "A" -> "a" [] w = "X" -> "x" [] OTHER -> w

\* text.lower().split()
Tokenize(text) == [i \in 1..Len(text) |-> LowerWord(text[i])]

Reverse(s) == [i \in 1..Len(s) |-> s[Len(s) + 1 - i]]

\* a[-n:] of a Python sequence, for any integer n
LastSlice(a, n) ==
    LET len == Len(a)
        start == IF n > 0 THEN (IF n >= len THEN 0 ELSE len - n)
                 ELSE (IF 0 - n >= len THEN len ELSE 0 - n)
    IN  SubSeq(a, start + 1, len)

\* np.argsort of a sequence of numbers, as positions 1..n; the default sort
\* kind is not stable, equal keys come out in the order this build produces
ArgSort(keys, ties) ==
    LET n == Len(keys)
        Before(i, j) == \/ keys[i] < keys[j]
                        \/ /\ keys[i] = keys[j]
                           /\ IF ties = "ascending" THEN i < j ELSE i > j
    IN  [r \in 1..n |->
            CHOOSE i \in 1..n : Cardinality({j \in 1..n : Before(j, i)}) = r - 1]

\* sum of a sequence of numbers
RECURSIVE Sum(_)
Sum(s) == IF s = << >> THEN 0 ELSE Head(s) + Sum(Tail(s))

----------------------------------------------------------------------------
(* rank_bm25.BM25Okapi with its default parameters k1 = 1.5, b = 0.75 and   *)
(* epsilon = 0.25, as bm25_search.py constructs and queries it.  Logarithms *)
(* are in units of 10^-4, term weights in units of 10^-3.                   *)

\* LnHalf[m + 1] = 10^4 * ln(m + 0.5)
LnHalf == <<0 - 6931, 4055, 9163, 12528, 15041, 17047, 18718>>

\* the words of the corpus
Vocabulary(corpus) == UNION {{corpus[i][j] : j \in 1..Len(corpus[i])} : i \in 1..Len(corpus)}

\* number of documents holding the word (nd in BM25._initialize)
DocCount(corpus, w) ==
    Cardinality({i \in 1..Len(corpus) : \E j \in 1..Len(corpus[i]) : corpus[i][j] = w})

\* occurrences of the word in one document (doc_freqs)
Frequency(doc, w) == Cardinality({j \in 1..Len(doc) : doc[j] = w})

\* log(corpus_size - freq + 0.5) - log(freq + 0.5)
RawIdf(corpus, w) ==
    LnHalf[Len(corpus) - DocCount(corpus, w) + 1] - LnHalf[DocCount(corpus, w) + 1]

\* idf_sum of BM25Okapi._calc_idf over a set of words
RECURSIVE IdfSum(_, _)
IdfSum(corpus, words) ==
    IF words = {} THEN 0
    ELSE LET w == CHOOSE v \in words : TRUE
         IN  RawIdf(corpus, w) + IdfSum(corpus, words \ {w})

\* BM25Okapi._calc_idf: a negative idf is replaced by epsilon * average_idf
CalcIdf(corpus) ==
    LET words == Vocabulary(corpus)
        eps == IdfSum(corpus, words) \div (4 * Cardinality(words))
    IN  [w \in words |-> IF RawIdf(corpus, w) < 0 THEN eps ELSE RawIdf(corpus, w)]

\* BM25.__init__ divides by corpus_size in _initialize and by len(idf) in
\* _calc_idf: it raises ZeroDivisionError for a corpus without documents and
\* for a corpus without words
BM25OkapiRaises(corpus) == Len(corpus) = 0 \/ Vocabulary(corpus) = {}

BM25Okapi(corpus) ==
    [corpus_size |-> Len(corpus),
     num_doc |-> Sum([i \in 1..Len(corpus) |-> Len(corpus[i])]),
     doc_len |-> [i \in 1..Len(corpus) |-> Len(corpus[i])],
     doc_freqs |-> [i \in 1..Len(corpus) |->
                      [w \in {corpus[i][j] : j \in 1..Len(corpus[i])} |->
                          Frequency(corpus[i], w)]],
     idf |-> CalcIdf(corpus)]

\* dict.get(key) or 0
GetOrZero(dict, key) == IF key \in DOMAIN dict THEN dict[key] ELSE 0

\* q_freq * (k1 + 1) / (q_freq + k1 * (1 - b + b * doc_len / avgdl)), with
\* avgdl = num_doc / corpus_size; numerator and denominator times 8 * num_doc
TermWeight(index, i, w) ==
    LET f == GetOrZero(index.doc_freqs[i], w)
    IN  (1000 * 20 * f * index.num_doc)
          \div (8 * f * index.num_doc + 3 * index.num_doc
                  + 9 * index.doc_len[i] * index.corpus_size)

\* BM25Okapi.get_scores: one score per indexed document
get_scores(index, tokenized_query) ==
    [i \in 1..index.corpus_size |->
        Sum([j \in 1..Len(tokenized_query) |->
                GetOrZero(index.idf, tokenized_query[j])
                  * TermWeight(index, i, tokenized_query[j])])]

----------------------------------------------------------------------------
(* BM25Search *)

\* TopIndices without the final [::-1]
TopIndices_NotReversed(scores, kk, ties) ==
    LastSlice(ArgSort(scores, ties), kk)

\* TopIndices with an argsort that orders equal keys the other way round
\* when the search is called again
TopIndices_TiesVaryByCall(scores, kk, ties) ==
    Reverse(LastSlice(ArgSort(scores, IF op = "none" THEN ties
                                      ELSE IF ties = "ascending" THEN "descending"
                                      ELSE "ascending"), kk))

\* top_indices = np.argsort(scores)[-k:][::-1], as positions 1..n
TopIndices(scores, kk, ties) ==
    Reverse(LastSlice(ArgSort(scores, ties), kk))

\* BM25Kept without the test scores[idx] > 0
BM25Kept_NoFilter(scores, kk, ties) ==
    Reverse(LastSlice(ArgSort(scores, ties), kk))

\* the indices the result loop keeps
BM25Kept(scores, kk, ties) ==
    SelectSeq(TopIndices(scores, kk, ties), LAMBDA idx : scores[idx] > 0)

\* BM25Result reporting the position counted from one
BM25Result_OneBased(docs, scores, idx) ==
    [content |-> docs[idx].page_content,
     score |-> scores[idx],
     index |-> idx,
     metadata |-> docs[idx].metadata]

\* one result record of BM25Search.search; idx is a position 1..n, the
\* record carries the Python index idx - 1
BM25Result(docs, scores, idx) ==
    [content |-> docs[idx].page_content,
     score |-> scores[idx],
     index |-> idx - 1,
     metadata |-> docs[idx].metadata]

\* the result loop of BM25Search.search
BM25Results(docs, scores, kk, ties) ==
    LET kept == BM25Kept(scores, kk, ties)
    IN  [r \in 1..Len(kept) |-> BM25Result(docs, scores, kept[r])]

\* self.documents[idx] raises IndexError when the index is longer than the
\* document list
BM25IndexError(docs, scores, kk, ties) ==
    \E r \in 1..Len(BM25Kept(scores, kk, ties)) :
        BM25Kept(scores, kk, ties)[r] > Len(docs)

\* BM25SearchCall answering an instance without index with an empty list
BM25SearchCall_EmptyWhenNotBuilt(index, docs, q, kk, ties) ==
    IF index = None
      THEN [outcome |-> "ok", results |-> << >>]
      ELSE LET scores == get_scores(index[1], Tokenize(q))
           IN  IF BM25IndexError(docs, scores, kk, ties)
                 THEN [outcome |-> "IndexError", results |-> << >>]
                 ELSE [outcome |-> "ok",
                       results |-> BM25Results(docs, scores, kk, ties)]

\* BM25Search.search: what the call raises or returns
BM25SearchCall(index, docs, q, kk, ties) ==
    IF index = None
      THEN [outcome |-> "ValueError: Index not built", results |-> << >>]
      ELSE LET scores == get_scores(index[1], Tokenize(q))
           IN  IF BM25IndexError(docs, scores, kk, ties)
                 THEN [outcome |-> "IndexError", results |-> << >>]
                 ELSE [outcome |-> "ok",
                       results |-> BM25Results(docs, scores, kk, ties)]

\* BM25Search.build_index: the fields after the call and how it ended;
\* documents and tokenized_docs are assigned before BM25Okapi can raise
BM25BuildCall(index, docs) ==
    LET tokenized == [i \in 1..Len(docs) |-> Tokenize(docs[i].page_content)]
    IN  [documents |-> docs,
         tokenized_docs |-> tokenized,
         bm25 |-> IF BM25OkapiRaises(tokenized) THEN index
                  ELSE <<BM25Okapi(tokenized)>>,
         outcome |-> IF BM25OkapiRaises(tokenized) THEN "ZeroDivisionError"
                     ELSE "ok"]

BM25_build_index(docs) ==
    /\ kind = "bm25"
    /\ op = "none"
    /\ builds < MaxBuilds
    /\ \E call \in {BM25BuildCall(bm25, docs)} :
           /\ documents' = call.documents
           /\ tokenized_docs' = call.tokenized_docs
           /\ bm25' = call.bm25
           /\ outcome' = call.outcome
    /\ builds' = builds + 1
    /\ passed' = docs
    /\ op' = "build_index"
    /\ query' = << >>
    /\ k' = 0
    /\ results' = << >>
    /\ embed_log' = << >>
    /\ again' = FALSE
    /\ before' = None
    /\ UNCHANGED <<kind, argsortTies, embedding_model, embeddings>>
    /\ UNCHANGED <<chunkvars, graphvars, storevars>>

\* BM25_search that takes the scored documents out of self.documents
BM25_search_ConsumesDocuments(q, kk) ==
    /\ kind = "bm25"
    /\ op = "none"
    /\ op' = "search"
    /\ query' = q
    /\ k' = kk
    /\ \E call \in {BM25SearchCall(bm25, documents, q, kk, argsortTies)} :
           /\ outcome' = call.outcome
           /\ results' = call.results
           /\ documents' = IF call.results = << >> THEN documents
                           ELSE Tail(documents)
    /\ embed_log' = << >>
    /\ again' = FALSE
    /\ before' = None
    /\ UNCHANGED <<kind, argsortTies, embedding_model, tokenized_docs,
                   bm25, embeddings, builds, passed>>
    /\ UNCHANGED <<chunkvars, graphvars, storevars>>

BM25_search(q, kk) ==
    /\ kind = "bm25"
    /\ op = "none"
    /\ op' = "search"
    /\ query' = q
    /\ k' = kk
    /\ \E call \in {BM25SearchCall(bm25, documents, q, kk, argsortTies)} :
           /\ outcome' = call.outcome
           /\ results' = call.results
    /\ embed_log' = << >>
    /\ again' = FALSE
    /\ before' = None
    /\ UNCHANGED <<kind, argsortTies, embedding_model, documents, tokenized_docs,
                   bm25, embeddings, builds, passed>>
    /\ UNCHANGED <<chunkvars, graphvars, storevars>>

\* the caller repeats the search that just ended, with the same query and
\* the same k, on the instance as it is
BM25_search_again ==
    /\ kind = "bm25"
    /\ op = "search"
    /\ ~again
    /\ again' = TRUE
    /\ before' = [outcome |-> outcome, results |-> results]
    /\ \E call \in {BM25SearchCall(bm25, documents, query, k, argsortTies)} :
           /\ outcome' = call.outcome
           /\ results' = call.results
    /\ embed_log' = << >>
    /\ UNCHANGED <<kind, argsortTies, embedding_model, documents, tokenized_docs,
                   bm25, embeddings, builds, passed, op, query, k>>
    /\ UNCHANGED <<chunkvars, graphvars, storevars>>

----------------------------------------------------------------------------
(* SemanticSearch *)

\* the injected embedding model: a word is a vector of two integers, a text
\* the sum of its words; the empty text is the all-zero vector
EmbedWord(w) ==
    CASE w = "A" -> <<1, 0>>
      [] w = "a" -> <<0 - 1, 0>>
      [] w = "X" -> <<0, 1>>
      [] w = "x" -> <<0, 1>>
      [] OTHER -> <<0, 0>>

\* embedding_model.embed_query
embed_query(text) ==
    <<Sum([j \in 1..Len(text) |-> EmbedWord(text[j])[1]]),
      Sum([j \in 1..Len(text) |-> EmbedWord(text[j])[2]])>>

\* np.dot
Dot(u, v) == u[1] * v[1] + u[2] * v[2]

\* Similarity dividing by the norm of the document only
Similarity_NoQueryNorm(query_embedding, doc_embedding) ==
    [dot |-> Dot(query_embedding, doc_embedding),
     nn |-> Dot(doc_embedding, doc_embedding)]

\* np.dot(q, d) / (norm(q) * norm(d) + 1e-9), kept exactly: the value of
\* [dot, nn] is dot / (sqrt(nn) + 1e-9), nn the squared product of the norms
Similarity(query_embedding, doc_embedding) ==
    [dot |-> Dot(query_embedding, doc_embedding),
     nn |-> Dot(query_embedding, query_embedding) * Dot(doc_embedding, doc_embedding)]

\* s < t for two positive similarities: compare dot_s * sqrt(nn_t) with
\* dot_t * sqrt(nn_s) by their squares; when they are equal the epsilon of
\* the denominators decides, which favours the larger dot product
PositiveLess(s, t) ==
    LET l == s.dot * s.dot * t.nn
        r == t.dot * t.dot * s.nn
    IN  l < r \/ (l = r /\ s.dot < t.dot)

Negated(s) == [dot |-> 0 - s.dot, nn |-> s.nn]

\* s < t as real numbers
SimLess(s, t) ==
    CASE s.dot > 0 /\ t.dot > 0 -> PositiveLess(s, t)
      [] s.dot < 0 /\ t.dot < 0 -> PositiveLess(Negated(t), Negated(s))
      [] OTHER -> s.dot < t.dot

\* the place of each similarity in the order of the real numbers: argsort
\* compares the floats, the ranks compare the same way
Ranks(similarities) ==
    [i \in 1..Len(similarities) |->
        Cardinality({j \in 1..Len(similarities) :
                        SimLess(similarities[j], similarities[i])})]

\* SemanticTopIndices without the final [::-1]
SemanticTopIndices_NotReversed(similarities, kk, ties) ==
    LastSlice(ArgSort(Ranks(similarities), ties), kk)

\* top_indices = np.argsort(similarities)[-k:][::-1], as positions 1..n
SemanticTopIndices(similarities, kk, ties) ==
    Reverse(LastSlice(ArgSort(Ranks(similarities), ties), kk))

\* SemanticResult without the position of the document
SemanticResult_NoIndex(docs, similarities, idx) ==
    [content |-> docs[idx],
     score |-> similarities[idx]]

\* one result record of SemanticSearch.search
SemanticResult(docs, similarities, idx) ==
    [content |-> docs[idx],
     score |-> similarities[idx],
     index |-> idx - 1]

\* SemanticResults keeping only positive similarities, as BM25Search does
SemanticResults_PositiveOnly(docs, similarities, kk, ties) ==
    LET top == SelectSeq(SemanticTopIndices(similarities, kk, ties),
                         LAMBDA idx : similarities[idx].dot > 0)
    IN  [r \in 1..Len(top) |-> SemanticResult(docs, similarities, top[r])]

\* the list comprehension that builds the results of SemanticSearch.search
SemanticResults(docs, similarities, kk, ties) ==
    LET top == SemanticTopIndices(similarities, kk, ties)
    IN  [r \in 1..Len(top) |-> SemanticResult(docs, similarities, top[r])]

\* SemanticSearchCall that returns an empty list when there are no
\* embeddings
SemanticSearchCall_EmptyWhenNoEmbeddings(embs, docs, q, kk, ties) ==
    LET query_embedding == embed_query(q)
        similarities ==
            [i \in 1..Len(embs) |-> Similarity(query_embedding, embs[i])]
    IN  [outcome |-> "ok",
         results |-> SemanticResults(docs, similarities, kk, ties),
         embedded |-> <<q>>]

\* SemanticSearch.search: what the call raises or returns
SemanticSearchCall(embs, docs, q, kk, ties) ==
    IF Len(embs) = 0
      THEN [outcome |-> "ValueError: Index not built", results |-> << >>,
            embedded |-> << >>]
      ELSE LET query_embedding == embed_query(q)
               similarities ==
                   [i \in 1..Len(embs) |-> Similarity(query_embedding, embs[i])]
           IN  [outcome |-> "ok",
                results |-> SemanticResults(docs, similarities, kk, ties),
                embedded |-> <<q>>]

\* SemanticBuildCall assigning self.documents and resetting self.embeddings
\* before it tests the model
SemanticBuildCall_AssignFirst(model, olddocs, oldembs, docs) ==
    IF ~model
      THEN [documents |-> docs, embeddings |-> << >>,
            outcome |-> "ValueError: Embedding model not provided",
            embedded |-> << >>]
      ELSE [documents |-> docs,
            embeddings |-> [i \in 1..Len(docs) |-> embed_query(docs[i])],
            outcome |-> "ok",
            embedded |-> docs]

\* SemanticBuildCall that puts each new embedding in front of the ones
\* it has
SemanticBuildCall_Prepends(model, olddocs, oldembs, docs) ==
    IF ~model
      THEN [documents |-> olddocs, embeddings |-> oldembs,
            outcome |-> "ValueError: Embedding model not provided",
            embedded |-> << >>]
      ELSE [documents |-> docs,
            embeddings |-> Reverse([i \in 1..Len(docs) |-> embed_query(docs[i])]),
            outcome |-> "ok",
            embedded |-> docs]

\* SemanticSearch.build_index: the fields after the call and how it ended
SemanticBuildCall(model, olddocs, oldembs, docs) ==
    IF ~model
      THEN [documents |-> olddocs, embeddings |-> oldembs,
            outcome |-> "ValueError: Embedding model not provided",
            embedded |-> << >>]
      ELSE [documents |-> docs,
            embeddings |-> [i \in 1..Len(docs) |-> embed_query(docs[i])],
            outcome |-> "ok",
            embedded |-> docs]

Semantic_build_index(docs) ==
    /\ kind = "semantic"
    /\ op = "none"
    /\ builds < MaxBuilds
    /\ \E call \in {SemanticBuildCall(embedding_model, documents, embeddings, docs)} :
           /\ documents' = call.documents
           /\ embeddings' = call.embeddings
           /\ outcome' = call.outcome
           /\ embed_log' = call.embedded
    /\ builds' = builds + 1
    /\ passed' = docs
    /\ op' = "build_index"
    /\ query' = << >>
    /\ k' = 0
    /\ results' = << >>
    /\ again' = FALSE
    /\ before' = None
    /\ UNCHANGED <<kind, argsortTies, embedding_model, tokenized_docs, bm25>>
    /\ UNCHANGED <<chunkvars, graphvars, storevars>>

Semantic_search(q, kk) ==
    /\ kind = "semantic"
    /\ op = "none"
    /\ op' = "search"
    /\ query' = q
    /\ k' = kk
    /\ \E call \in {SemanticSearchCall(embeddings, documents, q, kk, argsortTies)} :
           /\ outcome' = call.outcome
           /\ results' = call.results
           /\ embed_log' = call.embedded
    /\ again' = FALSE
    /\ before' = None
    /\ UNCHANGED <<kind, argsortTies, embedding_model, documents, tokenized_docs,
                   bm25, embeddings, builds, passed>>
    /\ UNCHANGED <<chunkvars, graphvars, storevars>>

----------------------------------------------------------------------------
(* SchemaClassChunker (src/retrieval/chunk/chunks.py).  For the chunker a   *)
(* text is the sequence of its characters, each a string of length one.     *)
(* One behaviour of SpecChunk is one chunker and one text: chunk(text) is   *)
(* called, then the chunks it returned are joined with newlines and         *)
(* chunked again by the same chunker.                                       *)

\* the head of an entity block, 'class T(Base):'
ClassHead ==
    <<"c", "l", "a", "s", "s", " ", "T", "(", "B", "a", "s", "e", ")", ":">>

\* the pieces the input texts are put together from: K the head of an entity
\* block, I a line break followed by an indentation of four spaces, N a line
\* break, W a word character
Piece(p) ==
    CASE p = "K" -> ClassHead
      [] p = "I" -> <<"\n", " ", " ", " ", " ">>
      [] p = "N" -> <<"\n">>
      [] OTHER -> <<"x">>

RECURSIVE Concat(_)
\* the concatenation of a sequence of sequences
Concat(ss) == IF ss = << >> THEN << >> ELSE Head(ss) \o Concat(Tail(ss))

\* a block whose name stands on the line after the keyword class, indented:
\* 'class', line break, four spaces, 'TTT(Base):'
BrokenHeadText ==
    <<"c", "l", "a", "s", "s", "\n", " ", " ", " ", " ",
      "T", "T", "T", "(", "B", "a", "s", "e", ")", ":">>

\* the texts passed to chunk, and the contents of the files passed to
\* get_documents_from_file
Texts ==
    {Concat([i \in 1..Len(ps) |-> Piece(ps[i])]) :
         ps \in SeqsUpTo({"K", "I", "N", "W"}, MaxPieces)}
        \cup {BrokenHeadText}

\* the values of max_chunk_size: None, 0, and sizes from the length of the
\* head of a block on, so that a block of head and members is split before
\* its first member, after it, or after its second
Sizes == {None, <<0>>} \cup {<<Len(ClassHead) + d>> : d \in 0..2}

\* \s and \w, for the characters texts are made of
IsSpace(c) == c \in {" ", "\n"}

IsWord(c) == c \in {"c", "l", "a", "s", "T", "B", "e", "x"}

CharAt(t, p) == IF p \in 1..Len(t) THEN t[p] ELSE ""

Least(S) == CHOOSE x \in S : \A y \in S : x <= y

Greatest(S) == CHOOSE x \in S : \A y \in S : x >= y

\* t holds the characters lit from position p on
HasAt(t, p, lit) ==
    /\ p + Len(lit) - 1 <= Len(t)
    /\ SubSeq(t, p, p + Len(lit) - 1) = lit

\* the first position from p on that does not hold whitespace
SkipSpace(t, p) == Least({q \in p..(Len(t) + 1) : ~IsSpace(CharAt(t, q))})

\* the first position from p on that does not hold a word character
SkipWord(t, p) == Least({q \in p..(Len(t) + 1) : ~IsWord(CharAt(t, q))})

ClassKeyword == <<"c", "l", "a", "s", "s">>

BaseSuffix == <<"(", "B", "a", "s", "e", ")", ":">>

\* class\s+\w+\(Base\): matched at position p of t: the position after the
\* match, or 0 if the pattern does not match there
EntityStart(t, p) ==
    IF ~HasAt(t, p, ClassKeyword) THEN 0
    ELSE LET a == SkipSpace(t, p + Len(ClassKeyword))
             b == SkipWord(t, a)
         IN  IF a > p + Len(ClassKeyword) /\ b > a /\ HasAt(t, b, BaseSuffix)
               THEN b + Len(BaseSuffix)
               ELSE 0

\* where the lazy [\s\S]*? of CLASS_PATTERN stops: the first position from
\* `from` on at which the lookahead (?=\nclass\s+\w+\(Base\):|\Z) holds
BlockEnd(t, from) ==
    Least({e \in from..(Len(t) + 1) :
               \/ e = Len(t) + 1
               \/ t[e] = "\n" /\ EntityStart(t, e + 1) # 0})

RECURSIVE CLASS_PATTERN_findall_FromScanStart(_, _)
\* CLASS_PATTERN_findall with a pattern that takes the text before the head
\* of the block into the match
CLASS_PATTERN_findall_FromScanStart(t, pos) ==
    LET starts == {p \in pos..Len(t) : EntityStart(t, p) # 0}
    IN  IF starts = {} THEN << >>
        ELSE LET p == Least(starts)
                 e == BlockEnd(t, EntityStart(t, p))
             IN  <<[from |-> pos, to |-> e - 1]>>
                     \o CLASS_PATTERN_findall_FromScanStart(t, e)

RECURSIVE CLASS_PATTERN_findall(_, _)
\* CLASS_PATTERN.findall(text), scanning from position pos: the spans of the
\* matches, from left to right
CLASS_PATTERN_findall(t, pos) ==
    LET starts == {p \in pos..Len(t) : EntityStart(t, p) # 0}
    IN  IF starts = {} THEN << >>
        ELSE LET p == Least(starts)
                 e == BlockEnd(t, EntityStart(t, p))
             IN  <<[from |-> p, to |-> e - 1]>> \o CLASS_PATTERN_findall(t, e)

\* block.strip(), on the span of the block
strip(t, span) ==
    LET inked == {i \in span.from..span.to : ~IsSpace(t[i])}
    IN  [from |-> Least(inked), to |-> Greatest(inked)]

\* the width of the indentation in the pattern of re.split
IndentWidth == 4

\* \n\s{4}(?=#|\w) matches at position p of t
MemberBoundary(t, p) ==
    /\ CharAt(t, p) = "\n"
    /\ \A i \in 1..IndentWidth : IsSpace(CharAt(t, p + i))
    /\ \/ CharAt(t, p + IndentWidth + 1) = "#"
       \/ IsWord(CharAt(t, p + IndentWidth + 1))

RECURSIVE re_split(_, _)
\* re.split(r"\n\s{4}(?=#|\w)", block), scanning from position pos
re_split(t, pos) ==
    LET boundaries == {p \in pos..Len(t) : MemberBoundary(t, p)}
    IN  IF boundaries = {} THEN <<SubSeq(t, pos, Len(t))>>
        ELSE LET p == Least(boundaries)
             IN  <<SubSeq(t, pos, p - 1)>> \o re_split(t, p + IndentWidth + 1)

\* sum(len(x) for x in running)
SumLen(running) == Sum([i \in 1..Len(running) |-> Len(running[i])])

RECURSIVE join(_)
\* "\n".join(running)
join(running) ==
    IF running = << >> THEN << >>
    ELSE IF Len(running) = 1 THEN running[1]
    ELSE running[1] \o <<"\n">> \o join(Tail(running))

RECURSIVE Pack_CountsNewlines(_, _, _, _)
\* Pack measuring the running sub-chunk as it will be joined, newlines
\* included
Pack_CountsNewlines(header, remainder, running, size) ==
    IF remainder = << >> THEN <<running>>
    ELSE LET part == Head(remainder)
         IN  IF Len(join(running)) + 1 + Len(part) > size
               THEN <<running>> \o Pack_CountsNewlines(header, Tail(remainder),
                                                       <<header, part>>, size)
               ELSE Pack_CountsNewlines(header, Tail(remainder),
                                        Append(running, part), size)

RECURSIVE Pack_DropsOverflowing(_, _, _, _)
\* Pack that starts the next sub-chunk with the header alone, without the
\* member that did not fit
Pack_DropsOverflowing(header, remainder, running, size) ==
    IF remainder = << >> THEN <<running>>
    ELSE LET part == Head(remainder)
         IN  IF SumLen(running) + Len(part) > size
               THEN <<running>> \o Pack_DropsOverflowing(header, Tail(remainder),
                                                        <<header>>, size)
               ELSE Pack_DropsOverflowing(header, Tail(remainder),
                                          Append(running, part), size)

RECURSIVE Pack(_, _, _, _)
\* the loop of _split_large_block over remainder and the append after it:
\* the lists `running` that are joined into sub-chunks, in order
Pack(header, remainder, running, size) ==
    IF remainder = << >> THEN <<running>>
    ELSE LET part == Head(remainder)
         IN  IF SumLen(running) + Len(part) > size
               THEN <<running>> \o Pack(header, Tail(remainder), <<header, part>>, size)
               ELSE Pack(header, Tail(remainder), Append(running, part), size)

\* split_large_block that puts the header into the first sub-chunk only
split_large_block_HeaderOnce(block, size) ==
    LET parts == re_split(block, 1)
        header == parts[1]
        groups == Pack(header, Tail(parts), <<header>>, size)
    IN  [block |-> block,
         parts |-> parts,
         groups |-> groups,
         sub_chunks |-> [g \in 1..Len(groups) |->
                            IF g = 1 THEN join(groups[g])
                            ELSE join(Tail(groups[g]))]]

\* _split_large_block(block) with max_chunk_size = size
split_large_block(block, size) ==
    LET parts == re_split(block, 1)
        header == parts[1]
        groups == Pack(header, Tail(parts), <<header>>, size)
    IN  [block |-> block,
         parts |-> parts,
         groups |-> groups,
         sub_chunks |-> [g \in 1..Len(groups) |-> join(groups[g])]]

\* Truthy that takes 0 for a size
Truthy_ZeroIsASize(size) == size # None

\* the truth value of self.max_chunk_size
Truthy(size) == size # None /\ size[1] # 0

\* SchemaClassChunker.chunk(text) with max_chunk_size = size: the trimmed
\* spans of the matched blocks, the calls of _split_large_block, and the
\* list returned
ChunkCall(t, size) ==
    LET matches == CLASS_PATTERN_findall(t, 1)
        spans == [i \in 1..Len(matches) |-> strip(t, matches[i])]
        clean_block(i) == SubSeq(t, spans[i].from, spans[i].to)
        TooLarge(i) == Truthy(size) /\ Len(clean_block(i)) > size[1]
        split(i) == split_large_block(clean_block(i), size[1])
    IN  [blocks |-> spans,
         split_log |-> Concat([i \in 1..Len(spans) |->
                          IF TooLarge(i) THEN <<split(i)>> ELSE << >>]),
         chunks |-> Concat([i \in 1..Len(spans) |->
                       IF TooLarge(i) THEN split(i).sub_chunks
                       ELSE <<clean_block(i)>>])]

\* chunker.chunk(text)
Chunker_chunk ==
    /\ stage = "new"
    /\ \E call \in {ChunkCall(input_text, max_chunk_size)} :
           /\ blocks' = call.blocks
           /\ split_log' = call.split_log
           /\ chunks' = call.chunks
    /\ stage' = "chunked"
    /\ UNCHANGED <<input_text, max_chunk_size, rechunks, file_path, loaded>>
    /\ UNCHANGED <<searchvars, graphvars, storevars>>

\* chunker.chunk("\n".join(chunks))
Chunker_rechunk ==
    /\ stage = "chunked"
    /\ rechunks' = ChunkCall(join(chunks), max_chunk_size).chunks
    /\ stage' = "rechunked"
    /\ UNCHANGED <<input_text, max_chunk_size, blocks, split_log, chunks,
                   file_path, loaded>>
    /\ UNCHANGED <<searchvars, graphvars, storevars>>

\* the paths passed to get_documents_from_file
FilePaths == {"schema.py", "../schema.py"}

\* the fallback of extract_table_name
UnknownName == <<"U", "n", "k", "n", "o", "w", "n">>

\* group 1 of class\s+(\w+)\(Base\): matched at position p of t
NameAt(t, p) ==
    LET a == SkipSpace(t, p + Len(ClassKeyword))
    IN  SubSeq(t, a, SkipWord(t, a) - 1)

\* extract_table_name: re.search takes the leftmost match
extract_table_name(chunk) ==
    LET found == {p \in 1..Len(chunk) : EntityStart(chunk, p) # 0}
    IN  IF found = {} THEN UnknownName ELSE NameAt(chunk, Least(found))

\* get_documents_from_file(path, chunker) for a file that holds code_text and
\* a chunker with max_chunk_size = size; for chunker = None size is None
GetDocumentsCall(path, code_text, size) ==
    LET call == ChunkCall(code_text, size)
    IN  [blocks |-> call.blocks,
         split_log |-> call.split_log,
         chunks |-> call.chunks,
         documents |-> [i \in 1..Len(call.chunks) |->
                          [page_content |-> call.chunks[i],
                           metadata |->
                               [table_name |-> extract_table_name(call.chunks[i]),
                                source |-> path]]]]

\* get_documents_from_file(path, chunker)
Loader_get_documents_from_file(path) ==
    /\ stage = "new"
    /\ \E call \in {GetDocumentsCall(path, input_text, max_chunk_size)} :
           /\ blocks' = call.blocks
           /\ split_log' = call.split_log
           /\ chunks' = call.chunks
           /\ loaded' = call.documents
    /\ file_path' = path
    /\ stage' = "loaded"
    /\ UNCHANGED <<input_text, max_chunk_size, rechunks>>
    /\ UNCHANGED <<searchvars, graphvars, storevars>>

\* no chunker in the behaviour
ChunkerUnused ==
    /\ input_text = << >>
    /\ max_chunk_size = None
    /\ stage = "unused"
    /\ blocks = << >>
    /\ split_log = << >>
    /\ chunks = << >>
    /\ rechunks = << >>
    /\ file_path = ""
    /\ loaded = << >>

\* no agent graph in the behaviour
GraphUnused ==
    /\ node = "unused"
    /\ messages = << >>

\* no vector store in the behaviour
StoreUnused ==
    /\ collections = << >>
    /\ retriever = None
    /\ schema_docs = 0

\* no search instance in the behaviour
SearchUnused ==
    /\ kind = "none"
    /\ argsortTies = "ascending"
    /\ embedding_model = FALSE
    /\ documents = << >>
    /\ tokenized_docs = << >>
    /\ bm25 = None
    /\ embeddings = << >>
    /\ builds = 0
    /\ passed = << >>
    /\ op = "none"
    /\ query = << >>
    /\ k = 0
    /\ outcome = "none"
    /\ results = << >>
    /\ embed_log = << >>
    /\ again = FALSE
    /\ before = None

InitChunk ==
    /\ input_text \in Texts
    /\ max_chunk_size \in Sizes
    /\ stage = "new"
    /\ blocks = << >>
    /\ split_log = << >>
    /\ chunks = << >>
    /\ rechunks = << >>
    /\ file_path = ""
    /\ loaded = << >>
    /\ SearchUnused
    /\ GraphUnused
    /\ StoreUnused

NextChunk ==
    \/ Chunker_chunk
    \/ Chunker_rechunk
    \/ \E path \in FilePaths : Loader_get_documents_from_file(path)

SpecChunk == InitChunk /\ [][NextChunk]_vars

----------------------------------------------------------------------------
(* The instance after construction, and its calls *)

\* the caller has the result or the exception of the call and goes on; the
\* instance keeps nothing of it
Return ==
    /\ op # "none"
    /\ op' = "none"
    /\ query' = << >>
    /\ k' = 0
    /\ outcome' = "none"
    /\ results' = << >>
    /\ embed_log' = << >>
    /\ again' = FALSE
    /\ before' = None
    /\ UNCHANGED <<kind, argsortTies, embedding_model, documents, tokenized_docs,
                   bm25, embeddings, builds, passed>>
    /\ UNCHANGED <<chunkvars, graphvars, storevars>>

Init ==
    /\ kind \in {"bm25", "semantic"}
    /\ argsortTies \in {"ascending", "descending"}
    /\ embedding_model \in (IF kind = "semantic" THEN BOOLEAN ELSE {FALSE})
    /\ documents = << >>
    /\ tokenized_docs = << >>
    /\ bm25 = None
    /\ embeddings = << >>
    /\ builds = 0
    /\ passed = << >>
    /\ op = "none"
    /\ query = << >>
    /\ k = 0
    /\ outcome = "none"
    /\ results = << >>
    /\ embed_log = << >>
    /\ again = FALSE
    /\ before = None
    /\ ChunkerUnused
    /\ GraphUnused
    /\ StoreUnused

Next ==
    \/ \E docs \in DocumentLists : BM25_build_index(docs)
    \/ \E q \in Queries, kk \in KValues : BM25_search(q, kk)
    \/ BM25_search_again
    \/ \E docs \in StringLists : Semantic_build_index(docs)
    \/ \E q \in Queries, kk \in KValues : Semantic_search(q, kk)
    \/ Return

Spec == Init /\ [][Next]_vars

----------------------------------------------------------------------------
(* The agent graph app_graph (src/main.py): llm_node, tool_node and the     *)
(* conditional edge should_continue.  One behaviour of SpecGraph is one     *)
(* call app_graph.invoke(inputs) with one HumanMessage.  What the LLM       *)
(* answers is an input of every llm_node step.                              *)

\* HumanMessage, AIMessage and ToolMessage
HumanMessage == [type |-> "human", tool_calls |-> << >>, name |-> "", content |-> << >>]

AIMessage(calls) == [type |-> "ai", tool_calls |-> calls, name |-> "", content |-> << >>]

ToolMessage(tool, result) == [type |-> "tool", tool_calls |-> << >>, name |-> tool, content |-> result]

ToolCall(tool, a, b) == [name |-> tool, a |-> a, b |-> b]

\* what llm.invoke can answer: no tool call, one tool call, or two
LlmResponses ==
    {<< >>,
     <<ToolCall("add_numbers", 1, 1)>>,
     <<ToolCall("divide_numbers", 1, 0)>>,
     <<ToolCall("subtract_numbers", 1, 1), ToolCall("multiply_numbers", 2, 1)>>}

\* the four tools; a result is <<number>>, or << >> for the text
\* 'Error: Cannot divide by zero.'  Quotients are taken of multiples only.
RunTool(call) ==
    CASE call.name = "add_numbers" -> <<call.a + call.b>>
      [] call.name = "subtract_numbers" -> <<call.a - call.b>>
      [] call.name = "multiply_numbers" -> <<call.a * call.b>>
      [] OTHER -> IF call.b = 0 THEN << >> ELSE <<call.a \div call.b>>

\* the reducer add_messages for messages with new ids
add_messages(left, right) == left \o right

\* should_continue that routes to tool_node whatever the last message is
should_continue_AlwaysTools(state_messages) == "tool_node"

\* should_continue
should_continue(state_messages) ==
    LET last_message == state_messages[Len(state_messages)]
    IN  IF last_message.tool_calls # << >> THEN "tool_node" ELSE "END"

\* the number of llm.invoke calls made so far
LlmCalls == Len(SelectSeq(messages, LAMBDA m : m.type = "ai"))

\* a step of llm_node and the conditional edge after it
llm_node ==
    /\ node = "llm_node"
    /\ LlmCalls < MaxLlmCalls
    /\ \E response \in LlmResponses :
           messages' = add_messages(messages, <<AIMessage(response)>>)
    /\ node' = should_continue(messages')
    /\ UNCHANGED <<searchvars, chunkvars, storevars>>

\* a step of tool_node = ToolNode(tools=math_tools) and the edge to llm_node
tool_node ==
    /\ node = "tool_node"
    /\ LET calls == messages[Len(messages)].tool_calls
       IN  messages' = add_messages(messages,
                           [i \in 1..Len(calls) |->
                               ToolMessage(calls[i].name, RunTool(calls[i]))])
    /\ node' = "llm_node"
    /\ UNCHANGED <<searchvars, chunkvars, storevars>>

InitGraph ==
    /\ node = "llm_node"
    /\ messages = <<HumanMessage>>
    /\ SearchUnused
    /\ ChunkerUnused
    /\ StoreUnused

NextGraph ==
    \/ llm_node
    \/ tool_node

SpecGraph == InitGraph /\ [][NextGraph]_vars

----------------------------------------------------------------------------
(* VectorRetriever (src/retrieval/vector_stores/retriever.py) and           *)
(* build_vector_store (src/retrieval/vector_stores/builder.py).  A chroma   *)
(* collection is the set of the ids it stores; the collections live on      *)
(* disk, so one behaviour of SpecStore constructs retrievers one after the  *)
(* other over the same collections.                                         *)

\* the path and the collection name build_vector_store writes to
BuilderPath == "./chroma_langchain_db"

BuilderCollection == "foo"

\* the paths and collection names a VectorRetriever is constructed with
Paths == {BuilderPath, "./other_db"}

CollectionNames == {BuilderCollection, "bar"}

\* ids = [str(i) for i, _ in enumerate(docs)]
Ids(n) == 0..(n - 1)

\* build_vector_store(): the collections after the call; add_documents puts
\* the documents under their ids, replacing what an id held
build_vector_store(colls, ndocs) ==
    [colls EXCEPT ![<<BuilderPath, BuilderCollection>>] = @ \cup Ids(ndocs)]

\* VectorRetriever(path, collection)
VectorRetriever_init(path, collection) ==
    /\ retriever = None
    /\ LET count == Cardinality(collections[<<path, collection>>])
       IN  /\ retriever' = <<[path |-> path, collection |-> collection,
                               count |-> count]>>
           /\ collections' = IF count = 0
                                THEN build_vector_store(collections, schema_docs)
                                ELSE collections
    /\ UNCHANGED schema_docs
    /\ UNCHANGED <<searchvars, chunkvars, graphvars>>

\* the retriever goes out of use; the collections stay on disk
Retriever_dropped ==
    /\ retriever # None
    /\ retriever' = None
    /\ UNCHANGED <<collections, schema_docs>>
    /\ UNCHANGED <<searchvars, chunkvars, graphvars>>

InitStore ==
    /\ collections \in [Paths \X CollectionNames -> {Ids(n) : n \in 0..MaxSchemaDocs}]
    /\ retriever = None
    /\ schema_docs \in 1..MaxSchemaDocs
    /\ SearchUnused
    /\ ChunkerUnused
    /\ GraphUnused

NextStore ==
    \/ \E path \in Paths, collection \in CollectionNames :
           VectorRetriever_init(path, collection)
    \/ Retriever_dropped

SpecStore == InitStore /\ [][NextStore]_vars

----------------------------------------------------------------------------
(* Properties *)

NotBuilt == "ValueError: Index not built"

Searched == op = "search" /\ outcome = "ok"

\* the content of a document as the instance's kind reads it
ContentOf(doc) == IF kind = "bm25" THEN doc.page_content ELSE doc

\* C1: on an instance on which build_index was never called, search fails
\* with the 'Index not built' error and returns no result list, whatever the
\* query and k, for BM25Search and for SemanticSearch.
C1_SearchBeforeBuildFails ==
    (builds = 0 /\ op = "search") => (outcome = NotBuilt /\ results = << >>)

C1_Witness ==
    builds = 0 /\ op = "search" /\ kind = "bm25" /\ query = <<"x">> /\ k = 3

\* C2: every result of a search has an index within the list passed to the
\* most recent build_index, and its content is the content of the document
\* at that index of that list.
C2_IndexPositionallyStable ==
    Searched =>
        \A r \in 1..Len(results) :
            /\ 0 <= results[r].index
            /\ results[r].index < Len(passed)
            /\ results[r].content = ContentOf(passed[results[r].index + 1])

\* a search after a second build_index whose list differs from the first
C2_Witness ==
    /\ Searched
    /\ builds = 2
    /\ Len(results) >= 2
    /\ results[1].index > results[2].index
    /\ results[1].content # results[2].content

\* the scores and similarities the last search computed
LastScores == get_scores(bm25[1], Tokenize(query))

LastSimilarities ==
    [i \in 1..Len(embeddings) |-> Similarity(embed_query(query), embeddings[i])]

ReturnedPositions == {results[r].index + 1 : r \in 1..Len(results)}

Min(a, b) == IF a <= b THEN a ELSE b

\* C3: every result of BM25Search.search has a score strictly greater than 0
\* and the scores do not increase from one result to the next.
C3_PositiveNonIncreasing ==
    (kind = "bm25" /\ Searched) =>
        /\ \A r \in 1..Len(results) : results[r].score > 0
        /\ \A r \in 1..(Len(results) - 1) : results[r].score >= results[r + 1].score

C3_Witness ==
    /\ kind = "bm25"
    /\ Searched
    /\ Len(results) = 2
    /\ results[1].score > results[2].score
    /\ \E i \in 1..Len(LastScores) : LastScores[i] <= 0

\* C4 (as claimed): for every k >= 0 BM25Search.search returns at most k
\* results, and no document left out has a positive score higher than the
\* score of a returned one.
C4_AtMostKHighest ==
    (kind = "bm25" /\ Searched /\ k >= 0) =>
        /\ Len(results) <= k
        /\ \A i \in 1..Len(LastScores) :
              (i \notin ReturnedPositions /\ LastScores[i] > 0) =>
                  \A r \in 1..Len(results) : LastScores[i] <= results[r].score

\* C5 (as claimed): of two consecutive results of BM25Search.search the
\* earlier has a strictly greater score.
C5_StrictlyDescending ==
    (kind = "bm25" /\ Searched) =>
        \A r \in 1..(Len(results) - 1) : results[r].score > results[r + 1].score

\* C5 (amended): of any two results of BM25Search.search the earlier has a
\* score greater than or equal to that of the later; equal scores may follow
\* one another.
C5_DescendingWithTies ==
    (kind = "bm25" /\ Searched) =>
        \A r \in 1..Len(results) : \A t \in 1..Len(results) :
            r < t => results[r].score >= results[t].score

\* two documents that score equally are both returned
C5_Witness ==
    /\ kind = "bm25"
    /\ Searched
    /\ Len(results) = 2
    /\ results[1].score = results[2].score

\* C6 (as claimed): BM25Search.build_index([]) raises nothing, and a
\* following search("x", k=3) raises nothing and returns an empty list.
C6_EmptyCorpusSearchReturnsEmpty ==
    (kind = "bm25" /\ builds >= 1 /\ passed = << >>) =>
        /\ op = "build_index" => outcome = "ok"
        /\ (op = "search" /\ query = <<"x">> /\ k = 3) =>
              (outcome = "ok" /\ results = << >>)

C8_UnfilteredTopK ==
    (kind = "semantic" /\ Searched /\ k >= 1) =>
        /\ Len(results) = Min(k, Len(documents))
        /\ \A i \in 1..Len(documents) :
              i \notin ReturnedPositions =>
                  \A r \in 1..Len(results) :
                      ~SimLess(results[r].score, LastSimilarities[i])

\* a zero and a negative similarity are returned and a document is left out
C8_Witness ==
    /\ kind = "semantic"
    /\ Searched
    /\ k = 2
    /\ Len(documents) = 3
    /\ Len(results) = 2
    /\ results[1].score.dot = 0
    /\ results[2].score.dot < 0

\* C9: the similarities of the results of SemanticSearch.search do not
\* increase from one result to the next, for every query and k.
C9_SimilaritiesNonIncreasing ==
    (kind = "semantic" /\ Searched) =>
        \A r \in 1..(Len(results) - 1) :
            ~SimLess(results[r].score, results[r + 1].score)

C9_Witness ==
    /\ kind = "semantic"
    /\ Searched
    /\ Len(results) = 3
    /\ SimLess(results[2].score, results[1].score)
    /\ SimLess(results[3].score, results[2].score)

\* dot / (sqrt(nn) + 1e-9) lies in [-1 - 1e-9, 1 + 1e-9]: for integers this
\* is dot^2 <= nn, which makes the value 0 when a vector is all-zero
InCosineRange(s) == s.dot * s.dot <= s.nn

\* C10: every similarity SemanticSearch.search returns lies in
\* [-1 - epsilon, 1 + epsilon]; with an all-zero query or document embedding
\* the search still returns and the similarity is 0.
C10_SimilarityInRange ==
    (kind = "semantic" /\ op = "search" /\ Len(embeddings) > 0) =>
        /\ outcome = "ok"
        /\ \A r \in 1..Len(results) :
              /\ InCosineRange(results[r].score)
              /\ results[r].score.nn = 0 => results[r].score.dot = 0

\* an all-zero document embedding next to similarities -1 < s < 0 and s > 0
C10_Witness ==
    /\ kind = "semantic"
    /\ Searched
    /\ \E r \in 1..Len(results) :
          results[r].score.nn = 0 /\ embed_query(results[r].content) = <<0, 0>>
    /\ \E r \in 1..Len(results) : results[r].score.dot < 0
    /\ \E r \in 1..Len(results) : results[r].score.dot > 0

----------------------------------------------------------------------------
(* Properties of SchemaClassChunker *)

\* chunk(input_text) has returned
Chunked == stage \in {"chunked", "rechunked"}

\* the positions of t at which the entity-start pattern matches
EntityStarts(t) == {p \in 1..Len(t) : EntityStart(t, p) # 0}

\* the text of a span of the input
TextOf(span) == SubSeq(input_text, span.from, span.to)

\* the chunk is one of the trimmed blocks, or a sub-chunk of one that was split
FromBlock(chunk) ==
    \/ \E i \in 1..Len(blocks) : chunk = TextOf(blocks[i])
    \/ \E s \in 1..Len(split_log) :
           /\ \E i \in 1..Len(blocks) : split_log[s].block = TextOf(blocks[i])
           /\ \E g \in 1..Len(split_log[s].sub_chunks) :
                  chunk = split_log[s].sub_chunks[g]

\* C11: chunk returns the empty list, and raises nothing, for the empty
\* string and for a text without an occurrence of the entity-start pattern;
\* the text before the first occurrence is in no chunk: every chunk is made
\* of a matched block, and no block starts before the first occurrence.
C11_NothingBeforeFirstEntity ==
    Chunked =>
        /\ EntityStarts(input_text) = {} => chunks = << >>
        /\ \A c \in 1..Len(chunks) : FromBlock(chunks[c])
        /\ \A i \in 1..Len(blocks) :
               blocks[i].from >= Least(EntityStarts(input_text))

C11_Witness ==
    /\ Chunked
    /\ EntityStarts(input_text) # {}
    /\ Least(EntityStarts(input_text)) > 1
    /\ chunks # << >>

\* C12: with max_chunk_size None or 0 _split_large_block is never called and
\* the chunks are the matched blocks, trimmed, one chunk for each block
\* whatever its length.
C12_NeverSplitsWhenDisabled ==
    (Chunked /\ max_chunk_size \in {None, <<0>>}) =>
        /\ split_log = << >>
        /\ Len(chunks) = Len(blocks)
        /\ \A i \in 1..Len(blocks) : chunks[i] = TextOf(blocks[i])

C12_Witness ==
    /\ Chunked
    /\ max_chunk_size = <<0>>
    /\ Len(chunks) >= 2
    /\ \E i \in 1..Len(chunks) : Len(chunks[i]) > Len(ClassHead) + 2

\* C13: with splitting disabled every chunk is a trimmed substring of the
\* input, the chunks lie in the input one after the other without overlap,
\* each begins at an occurrence of the entity-start pattern, and none
\* contains a second occurrence of it.
C13_OneEntityStartPerChunk ==
    (Chunked /\ ~Truthy(max_chunk_size)) =>
        /\ Len(chunks) = Len(blocks)
        /\ \A i \in 1..Len(blocks) :
               /\ chunks[i] = TextOf(blocks[i])
               /\ ~IsSpace(Head(chunks[i]))
               /\ ~IsSpace(chunks[i][Len(chunks[i])])
               /\ i < Len(blocks) => blocks[i].to < blocks[i + 1].from
               /\ EntityStarts(input_text) \cap (blocks[i].from..blocks[i].to)
                      = {blocks[i].from}

\* the header of a block: its text before its first member boundary
HeaderOf(block) ==
    LET boundaries == {p \in 1..Len(block) : MemberBoundary(block, p)}
    IN  IF boundaries = {} THEN block
        ELSE SubSeq(block, 1, Least(boundaries) - 1)

\* C14: every sub-chunk of a block that was split begins with the header of
\* the block, and a block without a member boundary gives one sub-chunk, the
\* block itself; the sub-chunks are among the chunks returned.
C14_SubChunksBeginWithHeader ==
    Chunked =>
        \A s \in 1..Len(split_log) :
            LET call == split_log[s]
            IN  /\ \A g \in 1..Len(call.sub_chunks) :
                       /\ HasAt(call.sub_chunks[g], 1, HeaderOf(call.block))
                       /\ \E c \in 1..Len(chunks) : chunks[c] = call.sub_chunks[g]
                /\ HeaderOf(call.block) = call.block
                       => call.sub_chunks = <<call.block>>

C14_Witness ==
    /\ Chunked
    /\ \E s \in 1..Len(split_log) :
           /\ Len(split_log[s].sub_chunks) >= 2
           /\ HeaderOf(split_log[s].block) # split_log[s].block

\* C15: in a split a running sub-chunk is closed exactly when the lengths of
\* its header and members plus the length of the next member exceed
\* max_chunk_size: the first member of each later sub-chunk did not fit the
\* sub-chunk before it, every other member fitted the sub-chunk it is in, and
\* the members are packed in their order.
C15_GreedyPacking ==
    Chunked =>
        \A s \in 1..Len(split_log) :
            LET groups == split_log[s].groups
                parts == split_log[s].parts
            IN  /\ \A g \in 1..Len(groups) : Head(groups[g]) = Head(parts)
                /\ Concat([g \in 1..Len(groups) |-> Tail(groups[g])]) = Tail(parts)
                /\ \A g \in 1..(Len(groups) - 1) :
                       SumLen(groups[g]) + Len(groups[g + 1][2])
                           > max_chunk_size[1]
                /\ \A g \in 1..Len(groups) : \A j \in 2..Len(groups[g]) :
                       (g = 1 \/ j > 2) =>
                           SumLen(SubSeq(groups[g], 1, j - 1)) + Len(groups[g][j])
                               <= max_chunk_size[1]

C15_Witness ==
    /\ Chunked
    /\ \E s \in 1..Len(split_log) :
           /\ Len(split_log[s].groups) >= 2
           /\ Len(split_log[s].groups[1]) >= 2

\* C16: joining the chunks with newlines and chunking the joined text with
\* the same chunker gives the same chunks again.
C16_Idempotent == stage = "rechunked" => rechunks = chunks

----------------------------------------------------------------------------
(* Properties of repeated searches, result records and embedding calls *)

C19_SearchLeavesIndex ==
    [][op' = "search" =>
           UNCHANGED <<documents, tokenized_docs, bm25, embeddings>>]_vars

C19_Witness ==
    /\ op = "search"
    /\ outcome = "ok"
    /\ results # << >>
    /\ builds = MaxBuilds

\* C20: a SemanticSearch.build_index that returns has called embed_query
\* once for each document, in the order of the list, and put the vector of
\* document i at position i; a SemanticSearch.search that returns has called
\* embed_query once, with the query.
C20_EmbedOncePerText ==
    kind = "semantic" =>
        /\ (op = "build_index" /\ outcome = "ok") =>
               /\ embed_log = passed
               /\ Len(embeddings) = Len(passed)
               /\ \A i \in 1..Len(passed) : embeddings[i] = embed_query(passed[i])
        /\ (op = "search" /\ outcome = "ok") => embed_log = <<query>>

C20_Witness ==
    /\ kind = "semantic"
    /\ op = "build_index"
    /\ outcome = "ok"
    /\ Len(passed) >= 2
    /\ embeddings[1] # embeddings[2]

----------------------------------------------------------------------------
(* Properties of the index after a failed or an empty build *)

\* C24 (as claimed): in every state of a BM25Search instance the index is
\* absent, or its corpus size is the length of documents and the length of
\* tokenized_docs, also after a build_index that raised.
C24_IndexDescribesDocuments ==
    (kind = "bm25" /\ bm25 # None) =>
        /\ bm25[1].corpus_size = Len(documents)
        /\ bm25[1].corpus_size = Len(tokenized_docs)

\* C25: after a SemanticSearch with an embedding model was given the empty
\* list by its last build_index, the instance has the fields of a new one
\* and every search raises the 'Index not built' error and returns nothing.
C25_EmptyBuildIsNotBuilt ==
    (kind = "semantic" /\ embedding_model /\ builds >= 1 /\ passed = << >>) =>
        /\ documents = << >>
        /\ embeddings = << >>
        /\ op = "build_index" => outcome = "ok"
        /\ op = "search" => (outcome = NotBuilt /\ results = << >>)

C25_Witness ==
    /\ kind = "semantic"
    /\ embedding_model
    /\ builds = MaxBuilds
    /\ passed = << >>
    /\ op = "search"
    /\ outcome = NotBuilt
    /\ k >= 1

----------------------------------------------------------------------------
(* Properties of the sub-chunks of a split block *)

\* the members of a block: its texts after each member boundary, up to the
\* next boundary or the end of the block
MembersOf(block) ==
    LET boundaries == {p \in 1..Len(block) : MemberBoundary(block, p)}
        Nth(n) == CHOOSE p \in boundaries :
                      Cardinality({q \in boundaries : q < p}) = n - 1
    IN  [n \in 1..Cardinality(boundaries) |->
            SubSeq(block, Nth(n) + IndentWidth + 1,
                   IF n = Cardinality(boundaries) THEN Len(block)
                   ELSE Nth(n + 1) - 1)]

\* C26 (as claimed): when a block with members is split and its header
\* joined with any one of its members is no longer than max_chunk_size,
\* every sub-chunk is no longer than max_chunk_size.
C26_SubChunksWithinLimit ==
    Chunked =>
        \A s \in 1..Len(split_log) :
            LET call == split_log[s]
                members == MembersOf(call.block)
            IN  (/\ members # << >>
                 /\ \A n \in 1..Len(members) :
                        Len(HeaderOf(call.block)) + 1 + Len(members[n])
                            <= max_chunk_size[1])
                    => \A g \in 1..Len(call.sub_chunks) :
                           Len(call.sub_chunks[g]) <= max_chunk_size[1]

\* C27: every sub-chunk of a split block begins with the header, and the
\* texts that follow the header in the sub-chunks, read in order, are the
\* members of the block, each once and in the order of the block, each on a
\* line of its own.
C27_NoMemberLostOrDuplicated ==
    Chunked =>
        \A s \in 1..Len(split_log) :
            LET call == split_log[s]
                header == HeaderOf(call.block)
                members == MembersOf(call.block)
            IN  /\ \A g \in 1..Len(call.sub_chunks) :
                       HasAt(call.sub_chunks[g], 1, header)
                /\ Concat([g \in 1..Len(call.sub_chunks) |->
                              SubSeq(call.sub_chunks[g], Len(header) + 1,
                                     Len(call.sub_chunks[g]))])
                       = Concat([n \in 1..Len(members) |-> <<"\n">> \o members[n]])

C27_Witness ==
    /\ Chunked
    /\ \E s \in 1..Len(split_log) :
           /\ Len(split_log[s].sub_chunks) >= 2
           /\ Len(MembersOf(split_log[s].block)) >= 2
           /\ Len(split_log[s].groups[1]) >= 2

\* C28 (as claimed): when a split block has at least one member, no
\* sub-chunk is the header alone.
C28_NoHeaderOnlySubChunk ==
    Chunked =>
        \A s \in 1..Len(split_log) :
            MembersOf(split_log[s].block) # << >> =>
                \A g \in 1..Len(split_log[s].sub_chunks) :
                    split_log[s].sub_chunks[g] # HeaderOf(split_log[s].block)

----------------------------------------------------------------------------
(* Properties of get_documents_from_file *)

\* C21 (as claimed): get_documents_from_file returns one Document for each
\* chunk of the chunker, in the order of the chunks, with the chunk as
\* page_content, the path as source and the name in the head of the chunk as
\* table_name, which is never the fallback "Unknown".
C21_OneDocumentPerChunk ==
    stage = "loaded" =>
        /\ Len(loaded) = Len(chunks)
        /\ \A i \in 1..Len(chunks) :
               /\ loaded[i].page_content = chunks[i]
               /\ loaded[i].metadata.source = file_path
               /\ EntityStart(chunks[i], 1) # 0
               /\ loaded[i].metadata.table_name = NameAt(chunks[i], 1)
               /\ loaded[i].metadata.table_name # UnknownName

----------------------------------------------------------------------------
(* Properties of the agent graph *)

\* the last message is an answer of the LLM without tool calls
FinalAnswer ==
    /\ messages[Len(messages)].type = "ai"
    /\ messages[Len(messages)].tool_calls = << >>

\* C22: a run starts at llm_node; after a step of llm_node the run is at
\* tool_node if the last message carries tool calls and has ended if not;
\* after a step of tool_node it is at llm_node; nothing runs after the end;
\* every step only appends to messages; so the run has ended exactly when
\* the last message is an answer without tool calls, and no earlier answer
\* of the LLM is without tool calls.
C22_GraphRouting ==
    /\ node = "llm_node"
    /\ [][/\ node # "END"
          /\ node = "llm_node" =>
                 node' = IF messages'[Len(messages')].tool_calls # << >>
                           THEN "tool_node" ELSE "END"
          /\ node = "tool_node" => node' = "llm_node"
          /\ Len(messages') >= Len(messages)
          /\ SubSeq(messages', 1, Len(messages)) = messages]_vars
    /\ [](/\ node = "END" <=> FinalAnswer
          /\ \A i \in 1..(Len(messages) - 1) :
                 messages[i].type = "ai" => messages[i].tool_calls # << >>)

C22_Witness ==
    /\ node = "END"
    /\ LlmCalls >= 3
    /\ \E i \in 1..Len(messages) :
           messages[i].type = "tool" /\ messages[i].content = << >>

----------------------------------------------------------------------------
(* Properties of VectorRetriever *)

\* C23 (as claimed): after a VectorRetriever was constructed, with any path
\* and collection name, its collection is not empty: it was populated if
\* its count was 0, and it holds as many documents as before if not.
C23_CollectionNotEmpty ==
    retriever # None =>
        LET r == retriever[1]
            held == collections[<<r.path, r.collection>>]
        IN  /\ held # {}
            /\ r.count > 0 => Cardinality(held) = r.count

====
